---- MODULE Spec2Model ----
(***************************************************************************)
(* Verification model of                                                   *)
(*   src/IO/FileEncryptionCommon.h   (InitVector, Encryptor,               *)
(*                                    isKeyLengthSupported)                *)
(*   src/Parsers/ASTColumnsTransformers.cpp                                *)
(*                                   (ASTColumnsExceptTransformer)         *)
(*                                                                         *)
(* A UInt128 is kept as 16 base-256 digits, least significant digit first  *)
(* (index 1 has weight 256^0), because the value does not fit a TLC        *)
(* integer.  Strings of bytes are sequences of 0..255.                     *)
(***************************************************************************)
EXTENDS Integers, Sequences, FiniteSets, TLC

VARIABLES
    \* ---- InitVector under test (SpecIV) ----
    counter,        \* InitVector::counter
    ivret,          \* value returned by the last InitVector operation
    ivop,           \* ghost: the last InitVector operation and its inputs
    ivsteps,        \* ghost: number of InitVector operations performed
    \* ---- Encryptor (Spec) ----
    constructed,    \* "none" | "ok" | "failed": outcome of Encryptor::Encryptor
    key,            \* Encryptor::key
    init_vector,    \* Encryptor::init_vector
    offset,         \* Encryptor::offset
    err,            \* error raised by the last operation, "none" if it succeeded
    sink,           \* bytes the WriteBuffer received from encrypt since construction
    hist,           \* ghost: history of the calls made on the Encryptor
    \* ---- ASTColumnsExceptTransformer::transform (SpecExcept) ----
    ex              \* the call's inputs, results and the log of its loop

ivVars == <<counter, ivret, ivop, ivsteps>>
encVars == <<constructed, key, init_vector, offset, err, sink, hist>>
vars == <<counter, ivret, ivop, ivsteps, constructed, key, init_vector, offset, err, sink, hist, ex>>

----------------------------------------------------------------------------
(* Bounds of the model *)

MaxIVSteps == 3
MaxCalls == 2
MaxOffset == 40
MaxNodes == 3

----------------------------------------------------------------------------
(* Bytes and 128-bit values *)

Byte == 0..255

kSize == 16

kBlockSize == 16

RECURSIVE Xor(_, _)
Xor(a, b) == IF a = 0 THEN b ELSE IF b = 0 THEN a ELSE ((a + b) % 2) + 2 * Xor(a \div 2, b \div 2)

\* the sequence with the elements of f (a function on 1..n)
AsSeq(f) == f \o <<>>

IsUInt128(v) == DOMAIN v = 1..kSize /\ \A i \in 1..kSize : v[i] \in Byte

U128Zero == AsSeq([i \in 1..kSize |-> 0])

U128Max == AsSeq([i \in 1..kSize |-> 255])

\* the UInt128 whose low digits are lo (least significant first), the rest fill
U128Of(lo, fill) == AsSeq([i \in 1..kSize |-> IF i <= Len(lo) THEN lo[i] ELSE fill])

\* digits of a size_t, as converted to UInt128 (the model's size_t values are below 2^24)
SizeToUInt128(n) == AsSeq([i \in 1..kSize |-> IF i = 1 THEN n % 256 ELSE IF i = 2 THEN (n \div 256) % 256 ELSE IF i = 3 THEN (n \div 65536) % 256 ELSE 0])

\* carry into digit i of a + b
RECURSIVE CarryInto(_, _, _)
CarryInto(a, b, i) == IF i = 1 THEN 0 ELSE (a[i-1] + b[i-1] + CarryInto(a, b, i-1)) \div 256

\* UInt128 addition: the sum's 16 low digits, the carry out of digit 16 is dropped
UInt128Add(a, b) == AsSeq([i \in 1..kSize |-> (a[i] + b[i] + CarryInto(a, b, i)) % 256])

----------------------------------------------------------------------------
(* InitVector *)

InitVector_set_Truncating(self, counter_) == AsSeq([i \in 1..kSize |-> IF i <= 8 THEN counter_[i] ELSE 0])

InitVector_set(self, counter_) == counter_

InitVector_get(self) == self

InitVector_preinc_Saturating(self) == IF self = U128Max THEN self ELSE UInt128Add(self, SizeToUInt128(1))

InitVector_preinc(self) == UInt128Add(self, SizeToUInt128(1))

InitVector_addassign_NoCarry(self, n) == AsSeq([i \in 1..kSize |-> (self[i] + SizeToUInt128(n)[i]) % 256])

InitVector_addassign(self, n) == UInt128Add(self, SizeToUInt128(n))

InitVector_plus_NoAdd(self, n) == self

\* InitVector res = *this; return res += offset;
InitVector_plus(self, n) == InitVector_addassign(self, n)

\* 16 bytes, most significant first
InitVector_toString(self) == AsSeq([i \in 1..kSize |-> self[kSize + 1 - i]])

InitVector_fromString(str_) == IF Len(str_) # kSize THEN [ok |-> FALSE, error |-> "BAD_ARGUMENTS"] ELSE [ok |-> TRUE, iv |-> AsSeq([i \in 1..kSize |-> str_[kSize + 1 - i]])]

InitVector_ctor(counter_) == InitVector_set(U128Zero, counter_)

\* InitVector res = *this; ++counter; return res;
InitVector_postinc(self) == [res |-> self, self |-> InitVector_preinc(self)]

----------------------------------------------------------------------------
(* Inputs of the InitVector operations *)

IVSeeds == { U128Zero, U128Max, U128Of(<<255>>, 0), U128Of(<<254, 255, 255>>, 255), U128Of(<<1, 2, 3, 4, 5, 6, 7, 8, 9, 10, 11, 12, 13, 14, 15, 16>>, 0), U128Of(<<0, 0, 0, 0, 0, 0, 0, 255>>, 0) }

AddArgs == {0, 1, 2, 256, 65535}

BadStrings == { <<>>, AsSeq([i \in 1..15 |-> 7]), AsSeq([i \in 1..17 |-> 7]) }

NoRet == [kind |-> "none", val |-> <<>>]

IdleIV == counter = U128Zero /\ ivret = NoRet /\ ivop = [name |-> "idle", pre |-> U128Zero, n |-> 0, v |-> U128Zero, clean |-> FALSE, rt |-> FALSE] /\ ivsteps = 0

InitIVObj == \E s \in IVSeeds : counter = InitVector_ctor(s) /\ ivret = NoRet /\ ivop = [name |-> "ctor", pre |-> U128Zero, n |-> 0, v |-> s, clean |-> TRUE, rt |-> FALSE] /\ ivsteps = 0

IV_set(v) ==
    /\ ivsteps < MaxIVSteps
    /\ counter' = InitVector_set(counter, v)
    /\ ivret' = NoRet
    /\ ivop' = [name |-> "set", pre |-> counter, n |-> 0, v |-> v, clean |-> TRUE, rt |-> FALSE]
    /\ ivsteps' = ivsteps + 1

IV_get ==
    /\ ivsteps < MaxIVSteps
    /\ counter' = counter
    /\ ivret' = [kind |-> "iv", val |-> InitVector_get(counter)]
    /\ ivop' = [ivop EXCEPT !.name = "get", !.pre = counter, !.n = 0]
    /\ ivsteps' = ivsteps + 1

IV_preinc ==
    /\ ivsteps < MaxIVSteps
    /\ counter' = InitVector_preinc(counter)
    /\ ivret' = [kind |-> "iv", val |-> counter']
    /\ ivop' = [ivop EXCEPT !.name = "preinc", !.pre = counter, !.n = 1, !.clean = FALSE, !.rt = FALSE]
    /\ ivsteps' = ivsteps + 1

IV_postinc ==
    /\ ivsteps < MaxIVSteps
    /\ counter' = InitVector_postinc(counter).self
    /\ ivret' = [kind |-> "iv", val |-> InitVector_postinc(counter).res]
    /\ ivop' = [ivop EXCEPT !.name = "postinc", !.pre = counter, !.n = 1, !.clean = FALSE, !.rt = FALSE]
    /\ ivsteps' = ivsteps + 1

IV_addassign(n) ==
    /\ ivsteps < MaxIVSteps
    /\ counter' = InitVector_addassign(counter, n)
    /\ ivret' = [kind |-> "iv", val |-> counter']
    /\ ivop' = [ivop EXCEPT !.name = "addassign", !.pre = counter, !.n = n, !.clean = FALSE, !.rt = FALSE]
    /\ ivsteps' = ivsteps + 1

IV_plus(n) ==
    /\ ivsteps < MaxIVSteps
    /\ counter' = counter
    /\ ivret' = [kind |-> "iv", val |-> InitVector_plus(counter, n)]
    /\ ivop' = [ivop EXCEPT !.name = "plus", !.pre = counter, !.n = n]
    /\ ivsteps' = ivsteps + 1

IV_toString ==
    /\ ivsteps < MaxIVSteps
    /\ counter' = counter
    /\ ivret' = [kind |-> "str", val |-> InitVector_toString(counter)]
    /\ ivop' = [ivop EXCEPT !.name = "toString", !.pre = counter, !.n = 0]
    /\ ivsteps' = ivsteps + 1

\* counter = InitVector::fromString(str_), str_ the string toString returned last or a malformed one
IV_fromString ==
    /\ ivsteps < MaxIVSteps
    /\ \E str_ \in (IF ivret.kind = "str" THEN {ivret.val} ELSE {}) \cup BadStrings :
         LET r == InitVector_fromString(str_) IN
         /\ counter' = IF r.ok THEN r.iv ELSE counter
         /\ ivret' = IF r.ok THEN [kind |-> "iv", val |-> r.iv] ELSE [kind |-> "error", val |-> str_]
         /\ ivop' = [ivop EXCEPT !.name = "fromString", !.pre = counter, !.n = Len(str_), !.rt = r.ok /\ ivop.name = "toString" /\ ivop.clean]
    /\ ivsteps' = ivsteps + 1

----------------------------------------------------------------------------
(* The block cipher in counter mode (the EVP cipher the Encryptor selects) *)

RECURSIVE SumTo(_, _)
SumTo(f, n) == IF n = 0 THEN 0 ELSE f[n] + SumTo(f, n - 1)

\* the cipher variant depends on the key's length, the keystream on the key's bytes
KeyHash(key_) == (Len(key_) * 11 + SumTo(AsSeq([i \in 1..Len(key_) |-> i * key_[i]]), Len(key_))) % 256

\* stand-in for the AES block function: a fixed function of the key and the 16-byte counter block
BlockCipher(key_, block) == LET h == (SumTo(AsSeq([i \in 1..kBlockSize |-> (2 * i + 1) * block[i]]), kBlockSize) + 131 * KeyHash(key_)) % 256 IN AsSeq([j \in 1..kBlockSize |-> (h * (2 * j + 1) + 29 * j + KeyHash(key_)) % 256])

\* counter mode treats the 16-byte IV as a big-endian counter: the block after ivstr
CtrNext(ivstr) == LET ffTail(i) == \A j \in (i+1)..kBlockSize : ivstr[j] = 255 IN AsSeq([i \in 1..kBlockSize |-> IF ffTail(i) THEN (ivstr[i] + 1) % 256 ELSE ivstr[i]])

\* the keystream of nblocks consecutive blocks, starting with the block of ivstr
RECURSIVE CtrStream(_, _, _)
CtrStream(key_, ivstr, nblocks) == IF nblocks = 0 THEN <<>> ELSE BlockCipher(key_, ivstr) \o CtrStream(key_, CtrNext(ivstr), nblocks - 1)

\* n bytes of keystream of a generator seeded with (key_, ivstr), after discarding skip bytes
CtrKeystream(key_, ivstr, skip, n) == SubSeq(CtrStream(key_, ivstr, (skip + n + kBlockSize - 1) \div kBlockSize), skip + 1, skip + n)

----------------------------------------------------------------------------
(* Encryptor *)

isKeyLengthSupported_Min128(key_length) == key_length * 8 >= 128 /\ key_length * 8 <= 256

isKeyLengthSupported(key_length) == key_length * 8 \in {128, 192, 256}

\* Encryptor::Encryptor: the outcome of constructing with key_
Encryptor_ctor(key_, iv_) == IF isKeyLengthSupported(Len(key_)) THEN [ok |-> TRUE, error |-> "none"] ELSE [ok |-> FALSE, error |-> "UNSUPPORTED_KEY_LENGTH"]

Encryptor_setOffset_Relative(cur, offset_) == cur + offset_

Encryptor_setOffset_BlockStart(cur, offset_) == offset_ - (offset_ % kBlockSize)

Encryptor_setOffset_Ignored(cur, offset_) == cur

Encryptor_setOffset(cur, offset_) == offset_

\* the bytes encrypt and decrypt produce for data when the codec is at offset off
Encryptor_transform(key_, iv_, off, data) == LET firstBlockIndex == off \div kBlockSize
                                                 blockCounter == InitVector_plus(iv_, firstBlockIndex)
                                                 skip == off % kBlockSize
                                                 ks == CtrKeystream(key_, InitVector_toString(blockCounter), skip, Len(data))
                                             IN AsSeq([i \in 1..Len(data) |-> Xor(data[i], ks[i])])

\* encrypt(data, size, out): what the sink receives, the offset after the call, the error raised;
\* sinkOk tells whether the sink accepts the write
Encryptor_encrypt_PartialWrite(key_, iv_, off, data, sinkOk) == IF Len(data) = 0 THEN [written |-> <<>>, offset |-> off, error |-> "none"] ELSE IF sinkOk THEN [written |-> Encryptor_transform(key_, iv_, off, data), offset |-> off + Len(data), error |-> "none"] ELSE [written |-> SubSeq(Encryptor_transform(key_, iv_, off, data), 1, Len(data) - 1), offset |-> off, error |-> "WRITE_FAILURE"]

Encryptor_encrypt(key_, iv_, off, data, sinkOk) == IF Len(data) = 0 THEN [written |-> <<>>, offset |-> off, error |-> "none"] ELSE IF sinkOk THEN [written |-> Encryptor_transform(key_, iv_, off, data), offset |-> off + Len(data), error |-> "none"] ELSE [written |-> <<>>, offset |-> off, error |-> "WRITE_FAILURE"]

\* decrypt(data, size, out): the size bytes written to out and the offset after the call
Encryptor_decrypt(key_, iv_, off, data) == IF Len(data) = 0 THEN [out |-> <<>>, offset |-> off] ELSE [out |-> Encryptor_transform(key_, iv_, off, data), offset |-> off + Len(data)]

----------------------------------------------------------------------------
(* Inputs of the Encryptor operations *)

KeyLengths == {0, 15, 16, 17, 24, 32, 33}

MaxKeyLength == 40

\* a key of n bytes of value 0x01
KeyOf(n) == AsSeq([i \in 1..n |-> 1])

BaseCounters == { U128Of(<<16, 15, 14, 13, 12, 11, 10, 9, 8, 7, 6, 5, 4, 3, 2, 1>>, 0), U128Of(<<254>>, 255) }

Sizes == {0, 5, 33}

OffsetArgs == {0, 30}

Pattern(seed, n) == AsSeq([i \in 1..n |-> (seed + 37 * (i - 1)) % 256])

DataInputs == { Pattern(72, n) : n \in Sizes }

NoCall == [op |-> "none", prev |-> "none", f |-> 0, data |-> <<>>, out |-> <<>>, ok |-> TRUE, positioned |-> FALSE, base |-> 0]

NoEnc == [valid |-> FALSE, base |-> 0, positioned |-> FALSE, data |-> <<>>, out |-> <<>>]

HistInit == [probe |-> [n |-> 0 - 1, res |-> FALSE], calls |-> 0, base |-> 0, sum |-> 0, pure |-> TRUE, fed |-> <<>>, last |-> NoCall, enc |-> NoEnc]

InitEnc == constructed = "none" /\ key = <<>> /\ init_vector = U128Zero /\ offset = 0 /\ err = "none" /\ sink = <<>> /\ hist = HistInit

\* a caller validates a key length before construction
ProbeKeyLength(n) ==
    /\ constructed = "none"
    /\ hist' = [hist EXCEPT !.probe = [n |-> n, res |-> isKeyLengthSupported(n)]]
    /\ UNCHANGED <<constructed, key, init_vector, offset, err, sink>>

\* Encryptor(key_, iv_); key and init_vector record the arguments also when construction fails
Construct(key_, iv_) ==
    /\ constructed = "none"
    /\ constructed' = IF Encryptor_ctor(key_, iv_).ok THEN "ok" ELSE "failed"
    /\ key' = key_
    /\ init_vector' = iv_
    /\ offset' = 0
    /\ err' = Encryptor_ctor(key_, iv_).error
    /\ sink' = <<>>
    /\ hist' = HistInit

SetOffset(offset_) ==
    /\ constructed = "ok"
    /\ offset' = Encryptor_setOffset(offset, offset_)
    /\ err' = "none"
    /\ hist' = [hist EXCEPT !.base = offset_, !.sum = 0, !.pure = FALSE, !.fed = <<>>, !.last = [NoCall EXCEPT !.op = "setOffset", !.prev = hist.last.op, !.f = offset, !.base = offset_]]
    /\ UNCHANGED <<constructed, key, init_vector, sink>>

Encrypt(data, sinkOk) ==
    /\ constructed = "ok"
    /\ hist.calls < MaxCalls
    /\ offset + Len(data) <= MaxOffset
    /\ LET r == Encryptor_encrypt(key, init_vector, offset, data, sinkOk)
           done == sinkOk \/ Len(data) = 0
       IN /\ sink' = sink \o r.written
          /\ offset' = r.offset
          /\ err' = r.error
          /\ hist' = [hist EXCEPT !.calls = @ + 1,
                                  !.sum = IF done THEN @ + Len(data) ELSE @,
                                  !.pure = @ /\ done,
                                  !.fed = IF hist.pure /\ done THEN @ \o data ELSE <<>>,
                                  !.last = [op |-> "encrypt", prev |-> hist.last.op, f |-> offset, data |-> data, out |-> r.written, ok |-> done, positioned |-> hist.sum = 0, base |-> hist.base],
                                  !.enc = IF done THEN [valid |-> TRUE, base |-> hist.base, positioned |-> hist.sum = 0, data |-> data, out |-> r.written] ELSE @]
    /\ UNCHANGED <<constructed, key, init_vector>>

Decrypt(data) ==
    /\ constructed = "ok"
    /\ hist.calls < MaxCalls
    /\ offset + Len(data) <= MaxOffset
    /\ LET r == Encryptor_decrypt(key, init_vector, offset, data)
       IN /\ offset' = r.offset
          /\ err' = "none"
          /\ hist' = [hist EXCEPT !.calls = @ + 1,
                                  !.sum = @ + Len(data),
                                  !.pure = FALSE,
                                  !.fed = <<>>,
                                  !.last = [op |-> "decrypt", prev |-> hist.last.op, f |-> offset, data |-> data, out |-> r.out, ok |-> TRUE, positioned |-> hist.sum = 0, base |-> hist.base]]
    /\ UNCHANGED <<constructed, key, init_vector, sink>>

ExIdle == ex = [pc |-> "idle"]

Init == IdleIV /\ InitEnc /\ ExIdle

Next ==
    \/ \E n \in 0..MaxKeyLength : ProbeKeyLength(n) /\ UNCHANGED <<ivVars, ex>>
    \/ \E n \in KeyLengths, iv_ \in BaseCounters : Construct(KeyOf(n), iv_) /\ UNCHANGED <<ivVars, ex>>
    \/ \E k \in OffsetArgs : SetOffset(k) /\ UNCHANGED <<ivVars, ex>>
    \/ \E d \in DataInputs, sinkOk \in BOOLEAN : Encrypt(d, sinkOk) /\ UNCHANGED <<ivVars, ex>>
    \/ \E d \in DataInputs \cup (IF hist.enc.valid THEN {hist.enc.out} ELSE {}) : Decrypt(d) /\ UNCHANGED <<ivVars, ex>>

Spec == Init /\ [][Next]_vars

InitIV == InitIVObj /\ InitEnc /\ ExIdle

NextIV ==
    \/ \E v \in IVSeeds : IV_set(v) /\ UNCHANGED <<encVars, ex>>
    \/ IV_get /\ UNCHANGED <<encVars, ex>>
    \/ IV_preinc /\ UNCHANGED <<encVars, ex>>
    \/ IV_postinc /\ UNCHANGED <<encVars, ex>>
    \/ \E n \in AddArgs : IV_addassign(n) /\ UNCHANGED <<encVars, ex>>
    \/ \E n \in AddArgs : IV_plus(n) /\ UNCHANGED <<encVars, ex>>
    \/ IV_toString /\ UNCHANGED <<encVars, ex>>
    \/ IV_fromString /\ UNCHANGED <<encVars, ex>>

SpecIV == InitIV /\ [][NextIV]_vars

----------------------------------------------------------------------------
(* ASTColumnsExceptTransformer::transform *)
(* A dotted name is kept as the sequence of its parts: "t.a" is <<"t", "a">>, *)
(* and db + "." + full_name puts db in front of the parts.                    *)

ASTIdentifier_name(node) == node.name_parts

ASTIdentifier_shortName(node) == <<node.name_parts[Len(node.name_parts)]>>

RemoveAt(seq, i) == SubSeq(seq, 1, i - 1) \o SubSeq(seq, i + 1, Len(seq))

\* the loop over nodes; it and db are the positions of the two iterators (Len + 1 is end()),
\* log records, for each db.table.column match, the node's original index and the position of db
RECURSIVE ExceptLoop(_, _)
ExceptLoop(databases, st) ==
    IF st.it > Len(st.nodes) THEN st
    ELSE LET node == st.nodes[st.it]
             have_database_name == Len(databases) > 0
             full_name == ASTIdentifier_name(node)
             byName == full_name \in st.expected_columns
             byShort == ~byName /\ ASTIdentifier_shortName(node) \in st.expected_columns
             consult == ~byName /\ ~byShort /\ have_database_name
             pastEnd == consult /\ st.db > Len(databases)
             byDb == consult /\ ~pastEnd /\ (<<databases[st.db]>> \o full_name) \in st.expected_columns
             found == IF byName THEN full_name ELSE IF byShort THEN ASTIdentifier_shortName(node) ELSE <<databases[st.db]>> \o full_name
             log1 == IF consult THEN Append(st.log, [node |-> node.idx, db |-> st.db]) ELSE st.log
         IN IF node.id /\ (byName \/ byShort \/ byDb)
            THEN ExceptLoop(databases, [st EXCEPT !.expected_columns = @ \ {found}, !.nodes = RemoveAt(@, st.it), !.log = log1, !.pastEnd = @ \/ pastEnd])
            ELSE ExceptLoop(databases, [st EXCEPT !.it = @ + 1, !.db = IF have_database_name THEN @ + 1 ELSE @, !.log = IF node.id THEN log1 ELSE @, !.pastEnd = @ \/ (node.id /\ pastEnd)])

ASTColumnsExceptTransformer_transform(children, is_strict, nodes, databases) ==
    LET expected_columns == { children[i] : i \in 1..Len(children) }
        fin == ExceptLoop(databases, [nodes |-> nodes, it |-> 1, db |-> 1, expected_columns |-> expected_columns, log |-> <<>>, pastEnd |-> FALSE])
    IN [nodes |-> fin.nodes, expected_columns |-> fin.expected_columns, db |-> fin.db, log |-> fin.log, pastEnd |-> fin.pastEnd,
        error |-> IF is_strict /\ fin.expected_columns # {} THEN "NO_SUCH_COLUMN_IN_TABLE" ELSE "none"]

(* Inputs of transform *)

NodePool == { [id |-> TRUE, name_parts |-> <<"t", "a">>], [id |-> TRUE, name_parts |-> <<"t", "b">>], [id |-> FALSE, name_parts |-> <<"f(x)">>] }

DatabaseNames == {"d1", "d2"}

ChildPool == { <<"a">>, <<"t", "b">>, <<"d1", "t", "b">>, <<"d2", "t", "b">>, <<"zz">> }

SeqsUpTo(S, n) == UNION { [1..k -> S] : k \in 1..n }

\* the column list of a query and, when the caller passes databases, one database per column
InitExcept == \E ns \in SeqsUpTo(NodePool, MaxNodes), cs \in SeqsUpTo(ChildPool, 2), strict \in BOOLEAN :
                 \E dbs \in {<<>>} \cup [1..Len(ns) -> DatabaseNames] :
                    ex = [pc |-> "call", children |-> cs, is_strict |-> strict, databases |-> dbs, input |-> ns,
                          nodes |-> [i \in 1..Len(ns) |-> [id |-> ns[i].id, name_parts |-> ns[i].name_parts, idx |-> i]],
                          expected_columns |-> {}, db |-> 1, log |-> <<>>, pastEnd |-> FALSE, error |-> "none"]

ExceptTransform ==
    /\ ex.pc = "call"
    /\ LET r == ASTColumnsExceptTransformer_transform(ex.children, ex.is_strict, ex.nodes, ex.databases)
       IN ex' = [ex EXCEPT !.pc = IF r.error = "none" THEN "done" ELSE "thrown", !.nodes = r.nodes, !.expected_columns = r.expected_columns, !.db = r.db, !.log = r.log, !.pastEnd = r.pastEnd, !.error = r.error]

InitEx == IdleIV /\ InitEnc /\ InitExcept

NextEx == ExceptTransform /\ UNCHANGED <<ivVars, encVars>>

SpecExcept == InitEx /\ [][NextEx]_vars

----------------------------------------------------------------------------
(* Arithmetic used to state the properties: the value of a UInt128 modulo m *)

Moduli == {251, 257, 65521}

RECURSIVE ResidueFrom(_, _, _)
ResidueFrom(v, i, m) == IF i > kSize THEN 0 ELSE (v[i] + 256 * ResidueFrom(v, i + 1, m)) % m

\* the value of the UInt128 v, modulo m
Residue(v, m) == ResidueFrom(v, 1, m)

RECURSIVE ResidueBEUpTo(_, _, _)
ResidueBEUpTo(str, i, m) == IF i = 0 THEN 0 ELSE (ResidueBEUpTo(str, i - 1, m) * 256 + str[i]) % m

\* the value of the byte string str read as a big-endian number, modulo m
ResidueBE(str, m) == ResidueBEUpTo(str, Len(str), m)

RECURSIVE Pow256(_, _)
Pow256(k, m) == IF k = 0 THEN 1 % m ELSE (256 * Pow256(k - 1, m)) % m

\* c + n >= 2^128, for n < 2^24
Wraps(c, n) == (\A i \in 4..kSize : c[i] = 255) /\ (255 - c[1]) + 256 * (255 - c[2]) + 65536 * (255 - c[3]) < n

\* r = (c + n) mod 2^128, as far as the residues modulo Moduli tell
IsSumMod128(c, n, r) == IsUInt128(r) /\ \A m \in Moduli : Residue(r, m) = (Residue(c, m) + n + (IF Wraps(c, n) THEN m - Pow256(kSize, m) ELSE 0)) % m

----------------------------------------------------------------------------
(* Properties *)

\* C1: a fresh Encryptor that encrypted consecutive chunks, with no setOffset in between, has
\* written to the sink exactly what one encrypt call at offset 0 writes for the concatenated chunks.
TheoremC1_ChunkIndependence == (constructed = "ok" /\ hist.pure) => sink = Encryptor_encrypt(key, init_vector, 0, hist.fed, TRUE).written

WitnessC1_TwoChunksMidBlock == constructed = "ok" /\ hist.pure /\ hist.calls = 2 /\ Len(hist.last.data) > 0 /\ Len(hist.fed) > Len(hist.last.data) /\ hist.last.f % kBlockSize # 0 /\ sink # hist.fed

\* C2: decrypting, positioned at offset o, the bytes that encrypt produced when positioned at
\* offset o, with the same key and base counter, returns the plaintext.
TheoremC2_RoundTrip == (constructed = "ok" /\ hist.last.op = "decrypt" /\ hist.last.positioned /\ hist.enc.valid /\ hist.enc.positioned /\ hist.enc.base = hist.last.base /\ hist.last.data = hist.enc.out) => hist.last.out = hist.enc.data

WitnessC2_RoundTripAt30 == constructed = "ok" /\ hist.last.op = "decrypt" /\ hist.last.positioned /\ hist.enc.valid /\ hist.enc.positioned /\ hist.enc.base = hist.last.base /\ hist.last.data = hist.enc.out /\ hist.last.base = 30 /\ Len(hist.enc.data) = 5 /\ hist.enc.out # hist.enc.data

\* C3: an encrypt that directly follows setOffset(k) writes the last len(p)-k bytes of the
\* ciphertext of p encrypted in one call at offset 0, for every p that ends with the encrypted
\* bytes, whatever calls preceded the setOffset.
TheoremC3_RandomAccess == (constructed = "ok" /\ hist.last.op = "encrypt" /\ hist.last.prev = "setOffset" /\ hist.last.ok) => \A seed \in {0, 72, 255} : LET k == hist.last.base
                                                                                                                                       p == Pattern(seed, k) \o hist.last.data
                                                                                                                                   IN hist.last.out = SubSeq(Encryptor_encrypt(key, init_vector, 0, p, TRUE).written, k + 1, Len(p))

WitnessC3_SeekAfterCall == constructed = "ok" /\ hist.last.op = "encrypt" /\ hist.last.prev = "setOffset" /\ hist.last.ok /\ hist.last.base = 30 /\ Len(hist.last.data) = 5 /\ hist.calls = 2

\* C4: the offset is 0 after construction and always equals the argument of the last setOffset
\* (0 if none) plus the sizes of the successful encrypt and decrypt calls made since.
TheoremC4_OffsetTracking == (constructed = "ok") => (offset = hist.base + hist.sum /\ (hist.last.op = "none" => offset = 0))

WitnessC4_SeekThenTwoCalls == constructed = "ok" /\ hist.base = 30 /\ hist.sum = 10 /\ hist.calls = 2 /\ offset = 40

\* C5: isKeyLengthSupported(n) is true exactly for n in {16, 24, 32}; construction succeeds exactly
\* for keys of these lengths and otherwise fails with the unsupported-key-length error, nothing
\* having been encrypted or decrypted.
TheoremC5_KeyLengthGate == /\ (hist.probe.n >= 0 => (hist.probe.res <=> hist.probe.n \in {16, 24, 32}))
                           /\ (constructed # "none" => ((constructed = "ok") <=> Len(key) \in {16, 24, 32}))
                           /\ (constructed = "failed" => (err = "UNSUPPORTED_KEY_LENGTH" /\ sink = <<>> /\ hist.calls = 0 /\ hist.last.op = "none"))

WitnessC5_Rejected17 == constructed = "failed" /\ Len(key) = 17 /\ err = "UNSUPPORTED_KEY_LENGTH"

TheoremC9_KeystreamAddressing == (constructed = "ok" /\ hist.last.op \in {"encrypt", "decrypt"} /\ hist.last.ok) => /\ Len(hist.last.out) = Len(hist.last.data)
                                                                                                                  /\ \A i \in 0..(Len(hist.last.data) - 1) : LET o == hist.last.f + i
                                                                                                                                                                blockCounter == UInt128Add(init_vector, SizeToUInt128(o \div kBlockSize))
                                                                                                                                                            IN hist.last.out[i + 1] = Xor(hist.last.data[i + 1], BlockCipher(key, InitVector_toString(blockCounter))[(o % kBlockSize) + 1])

WitnessC9_MidBlockThreeBlocksWrap == constructed = "ok" /\ hist.last.op = "encrypt" /\ hist.last.ok /\ hist.last.f = 5 /\ Len(hist.last.data) = 33 /\ init_vector = U128Of(<<254>>, 255)

\* C6: InitVector(v).toString() is 16 bytes holding v in big-endian order, and fromString of that
\* string gives a counter whose get() is v.
TheoremC6_SerializationRoundTrip == /\ ((ivop.name = "toString" /\ ivop.clean) => (Len(ivret.val) = 16 /\ (\A i \in 1..16 : ivret.val[i] \in Byte) /\ (\A m \in Moduli : ResidueBE(ivret.val, m) = Residue(ivop.v, m)) /\ ivret.val[1] = ivop.v[kSize]))
                                    /\ ((ivop.name = "fromString" /\ ivop.rt) => (ivret.kind = "iv" /\ InitVector_get(counter) = ivop.v))

WitnessC6_RoundTripAsymmetric == ivop.name = "fromString" /\ ivop.rt /\ ivop.v = U128Of(<<1, 2, 3, 4, 5, 6, 7, 8, 9, 10, 11, 12, 13, 14, 15, 16>>, 0) /\ counter = ivop.v

\* C7: ++ yields (c+1) mod 2^128 and += n, + n yield (c+n) mod 2^128, without an error;
\* incrementing the maximum value yields zero.
TheoremC7_CounterWraps == /\ (ivop.name \in {"preinc", "postinc", "addassign"} => (ivret.kind = "iv" /\ IsSumMod128(ivop.pre, ivop.n, counter)))
                          /\ (ivop.name = "plus" => (ivret.kind = "iv" /\ IsSumMod128(ivop.pre, ivop.n, ivret.val) /\ counter = ivop.pre))
                          /\ ((ivop.name \in {"preinc", "postinc"} /\ ivop.pre = U128Max) => counter = U128Zero)
                          /\ (ivop.name = "postinc" => ivret.val = ivop.pre)
                          /\ (ivop.name \in {"preinc", "addassign"} => ivret.val = counter)

WitnessC7_MaxPlusOneIsZero == ivop.name = "preinc" /\ ivop.pre = U128Max /\ counter = U128Zero

\* C10: with one database per node, each db.table.column match consults the database at the
\* node's original index, also after a removal, and the databases iterator stays within the list.
ClaimC10_DatabaseAlignment == (ex.pc \in {"done", "thrown"} /\ Len(ex.databases) > 0) => /\ \A i \in 1..Len(ex.log) : ex.log[i].db = ex.log[i].node
                                                                                       /\ ~ex.pastEnd
                                                                                       /\ ex.db <= Len(ex.databases) + 1

====
